---- MODULE Spec2Model ----
(***************************************************************************)
(* Duty-cycle controller of the moisture sensor node                       *)
(* (src/moisture-sensor.ino).                                              *)
(*                                                                         *)
(* One duty cycle is one execution of loop(): processMoisture,             *)
(* processBattery, processReset, sleep(CYCLE_DURATION).  The steps of the  *)
(* model are the basic blocks of that code between the calls that block    *)
(* (send, wait, sleep); pc is the position of the main control flow.       *)
(* receive() is called by the radio library while the node waits for the   *)
(* acknowledgement and between two executions of loop().                   *)
(***************************************************************************)
EXTENDS Integers, Sequences, FiniteSets, TLC

(***************************************************************************)
(* Program constants                                                       *)
(***************************************************************************)
FORCE_SEND_AFTER_N_CYCLE == 3
RESET_AFTER_N_CYCLE == 36
SEND_BATTERY_LOW_AFTER_N_CYCLE == 3
BATTERY_LOW_LIMIT == 10
CHILD_VALUE_ID == 0
\* uint16_t counters wrap modulo 2^16
UINT16 == 65536
\* analogRead() returns 0 .. AnalogMax
AnalogMax == 1023

(***************************************************************************)
(* Bounds of the model                                                     *)
(***************************************************************************)
\* number of distinct raw analog samples the probe may deliver
NumRaw == 2
\* resolution of the battery gauge reading: units per percent
SocUnit == 2

\* raw samples spread over the whole ADC range, both ends included
RawSamples == {(i * AnalogMax) \div (NumRaw - 1) : i \in 0..(NumRaw - 1)}
\* state-of-charge readings (in 1/SocUnit percent): just below the low
\* limit, exactly at it, and a well charged battery
SocSamples == {BATTERY_LOW_LIMIT * SocUnit - 1, BATTERY_LOW_LIMIT * SocUnit,
               90 * SocUnit + 1}

VARIABLES
  \* globals of the sketch
  lastProbeValue, cycleCpt, batteryLowCpt, cycleCptReset, probeValueReceived,
  \* control: position of the main flow, and the locals that live across a
  \* blocking call
  pc, probeValueGross, probeValue, allowSend, batteryLevel,
  \* radio link: messages on their way to the node, and the messages the
  \* node transmitted in the current duty cycle, in order
  network, cycleTx,
  \* history of the run, read by the properties only
  cycleNo, restarted, sentSinceStart, cyclesSinceSend, gwAckedLast, ackSeen,
  lowStreak, lowStreakLP, lowStreakRun,
  \* the value carried by the most recent moisture send, and the steps the
  \* current duty cycle has run so far
  lastSentValue, cycleSteps

progVars == <<lastProbeValue, cycleCpt, batteryLowCpt, cycleCptReset,
              probeValueReceived>>
localVars == <<probeValueGross, probeValue, allowSend, batteryLevel>>
radioVars == <<network, cycleTx>>
lowVars == <<lowStreak, lowStreakLP, lowStreakRun>>
sendVars == <<sentSinceStart, cyclesSinceSend, gwAckedLast, ackSeen,
              lastSentValue>>
vars == <<progVars, pc, localVars, radioVars, cycleNo, restarted, sendVars,
          lowVars, cycleSteps>>

Min(a, b) == IF a < b THEN a ELSE b

(***************************************************************************)
(* Pure functions                                                          *)
(***************************************************************************)
\* the scaling with the conversion to int alone, without round()
ScaleTruncates(raw) == (100 * raw) \div 1024

\* (int)round(100.0 * (float)raw / 1024.0): the quotient is a multiple of
\* 1/256 below 128, exact in a 32-bit float; round() adds 0.5 and truncates.
Scale(raw) == (2 * 100 * raw + 1024) \div 2048

\* sendBatteryLevel(uint8_t): the float reading is truncated to a byte
BatteryByte(level) == (level \div SocUnit) % 256

\* line 215 with the force-send test off by one
MustSendLateForce(value) ==
  \/ value # lastProbeValue
  \/ cycleCpt = FORCE_SEND_AFTER_N_CYCLE + 1
  \/ ~probeValueReceived

\* the test of line 215
MustSend(value) ==
  \/ value # lastProbeValue
  \/ cycleCpt = FORCE_SEND_AFTER_N_CYCLE
  \/ ~probeValueReceived

\* the test of line 282
IsLow(level) == level < BATTERY_LOW_LIMIT * SocUnit

(***************************************************************************)
(* Messages                                                                *)
(***************************************************************************)
\* the echo the gateway returns for a moisture message sent with
\* requestAck; fresh tells whether it answers the most recent moisture send
AckMsg(f) == [sensor |-> CHILD_VALUE_ID, isAck |-> TRUE, fresh |-> f]
\* other traffic the library hands to receive()
OtherMsgs == {[sensor |-> CHILD_VALUE_ID, isAck |-> FALSE, fresh |-> FALSE],
              [sensor |-> 255, isAck |-> TRUE, fresh |-> FALSE]}
\* positions of the main flow at which the library processes incoming
\* messages: inside wait(), and between two executions of loop()
ReceivePoints == {"wait", "moisture"}

(***************************************************************************)
(* Start of the program                                                    *)
(***************************************************************************)
\* a start-up whose setup() does not pre-arm the force-send counter
StartupNotArmed ==
  /\ lastProbeValue' = 0
  /\ batteryLowCpt' = 0
  /\ cycleCptReset' = 0
  /\ probeValueReceived' = TRUE
  /\ cycleCpt' = 0

\* a jump to setup() that leaves the globals as they are
StartupKeepsGlobals ==
  /\ cycleCpt' = FORCE_SEND_AFTER_N_CYCLE
  /\ UNCHANGED <<lastProbeValue, batteryLowCpt, cycleCptReset,
                 probeValueReceived>>

\* the globals as the C runtime sets them before main(), then setup()
Startup ==
  /\ lastProbeValue' = 0
  /\ batteryLowCpt' = 0
  /\ cycleCptReset' = 0
  /\ probeValueReceived' = TRUE
  /\ cycleCpt' = FORCE_SEND_AFTER_N_CYCLE

Init ==
  /\ lastProbeValue = 0
  /\ batteryLowCpt = 0
  /\ cycleCptReset = 0
  /\ probeValueReceived = TRUE
  /\ cycleCpt = FORCE_SEND_AFTER_N_CYCLE
  /\ pc = "moisture"
  /\ probeValueGross = 0
  /\ probeValue = 0
  /\ allowSend = FALSE
  /\ batteryLevel = 0
  /\ network = {}
  /\ cycleTx = <<>>
  /\ cycleNo = 0
  /\ restarted = FALSE
  /\ sentSinceStart = FALSE
  /\ cyclesSinceSend = 0
  /\ gwAckedLast = FALSE
  /\ ackSeen = TRUE
  /\ lowStreak = 0
  /\ lowStreakLP = 0
  /\ lowStreakRun = 0
  /\ lastSentValue = 0
  /\ cycleSteps = <<>>

(***************************************************************************)
(* Moisture step: processMoisture()                                        *)
(***************************************************************************)
\* processMoisture whose test forgets the unacknowledged send
ProcessMoistureNoRetry(raw) ==
  /\ pc = "moisture"
  /\ probeValueGross' = raw
  /\ probeValue' = Scale(raw)
  /\ IF Scale(raw) # lastProbeValue \/ cycleCpt = FORCE_SEND_AFTER_N_CYCLE
       THEN /\ lastProbeValue' = Scale(raw)
            /\ cycleCpt' = 0
            /\ allowSend' = TRUE
            /\ probeValueReceived' = FALSE
            /\ pc' = "send"
            /\ UNCHANGED cyclesSinceSend
       ELSE /\ cycleCpt' = (cycleCpt + 1) % UINT16
            /\ allowSend' = FALSE
            /\ pc' = "battery"
            /\ cyclesSinceSend' = Min(cyclesSinceSend + 1, FORCE_SEND_AFTER_N_CYCLE + 1)
            /\ UNCHANGED <<lastProbeValue, probeValueReceived>>
  /\ cycleNo' = Min(cycleNo + 1, RESET_AFTER_N_CYCLE + 1)
  /\ cycleSteps' = <<"moisture">>
  /\ UNCHANGED <<batteryLowCpt, cycleCptReset, batteryLevel, radioVars,
                 restarted, sentSinceStart, gwAckedLast, ackSeen, lowVars,
                 lastSentValue>>

\* processMoisture without the assignment of line 217
ProcessMoistureKeepsLast(raw) ==
  /\ pc = "moisture"
  /\ probeValueGross' = raw
  /\ probeValue' = Scale(raw)
  /\ IF MustSend(Scale(raw))
       THEN /\ cycleCpt' = 0
            /\ allowSend' = TRUE
            /\ probeValueReceived' = FALSE
            /\ pc' = "send"
            /\ UNCHANGED <<lastProbeValue, cyclesSinceSend>>
       ELSE /\ cycleCpt' = (cycleCpt + 1) % UINT16
            /\ allowSend' = FALSE
            /\ pc' = "battery"
            /\ cyclesSinceSend' = Min(cyclesSinceSend + 1, FORCE_SEND_AFTER_N_CYCLE + 1)
            /\ UNCHANGED <<lastProbeValue, probeValueReceived>>
  /\ cycleNo' = Min(cycleNo + 1, RESET_AFTER_N_CYCLE + 1)
  /\ cycleSteps' = <<"moisture">>
  /\ UNCHANGED <<batteryLowCpt, cycleCptReset, batteryLevel, radioVars,
                 restarted, sentSinceStart, gwAckedLast, ackSeen, lowVars,
                 lastSentValue>>

\* lines 202-222: sample, scale, decide; on the send path the globals are
\* updated before send() is called
ProcessMoisture(raw) ==
  /\ pc = "moisture"
  /\ probeValueGross' = raw
  /\ probeValue' = Scale(raw)
  /\ IF MustSend(Scale(raw))
       THEN /\ lastProbeValue' = Scale(raw)
            /\ cycleCpt' = 0
            /\ allowSend' = TRUE
            /\ probeValueReceived' = FALSE
            /\ pc' = "send"
            /\ UNCHANGED cyclesSinceSend
       ELSE /\ cycleCpt' = (cycleCpt + 1) % UINT16
            /\ allowSend' = FALSE
            /\ pc' = "battery"
            /\ cyclesSinceSend' = Min(cyclesSinceSend + 1, FORCE_SEND_AFTER_N_CYCLE + 1)
            /\ UNCHANGED <<lastProbeValue, probeValueReceived>>
  /\ cycleNo' = Min(cycleNo + 1, RESET_AFTER_N_CYCLE + 1)
  /\ cycleSteps' = <<"moisture">>
  /\ UNCHANGED <<batteryLowCpt, cycleCptReset, batteryLevel, radioVars,
                 restarted, sentSinceStart, gwAckedLast, ackSeen, lowVars,
                 lastSentValue>>

\* line 227: send(messageValue.set(probeValue), true).  The message reaches
\* the gateway, which returns its echo, or it is lost on the way.
SendValue(delivered) ==
  /\ pc = "send"
  /\ cycleTx' = Append(cycleTx, [type |-> "V", value |-> probeValue])
  /\ network' = (IF network = {} THEN {} ELSE {AckMsg(FALSE)})
                  \cup (IF delivered THEN {AckMsg(TRUE)} ELSE {})
  /\ gwAckedLast' = delivered
  /\ ackSeen' = FALSE
  /\ sentSinceStart' = TRUE
  /\ cyclesSinceSend' = 0
  /\ lastSentValue' = probeValue
  /\ pc' = "wait"
  /\ UNCHANGED <<progVars, localVars, cycleNo, restarted, lowVars, cycleSteps>>

\* line 229: wait(1000) returns
WaitEnd ==
  /\ pc = "wait"
  /\ pc' = "battery"
  /\ UNCHANGED <<progVars, localVars, radioVars, cycleNo, restarted, sendVars,
                 lowVars, cycleSteps>>

(***************************************************************************)
(* receive(): lines 151-158                                                *)
(***************************************************************************)
\* receive() that does not test isAck()
ReceiveAnyMessage(m) ==
  /\ pc \in ReceivePoints
  /\ network' = network \ {m}
  /\ IF m.sensor = CHILD_VALUE_ID
       THEN /\ probeValueReceived' = TRUE
            /\ ackSeen' = (m.isAck \/ ackSeen)
       ELSE UNCHANGED <<probeValueReceived, ackSeen>>
  /\ UNCHANGED <<lastProbeValue, cycleCpt, batteryLowCpt, cycleCptReset, pc,
                 localVars, cycleTx, cycleNo, restarted, sentSinceStart,
                 cyclesSinceSend, gwAckedLast, lastSentValue, lowVars,
                 cycleSteps>>

\* a handler that stores the result of the test in the flag
ReceiveFlagAssigns(flag, m) == m.sensor = CHILD_VALUE_ID /\ m.isAck

\* lines 154-157: probeValueReceived after receive(m), from its value before
ReceiveFlag(flag, m) ==
  IF m.sensor = CHILD_VALUE_ID /\ m.isAck THEN TRUE ELSE flag

Receive(m) ==
  /\ pc \in ReceivePoints
  /\ network' = network \ {m}
  /\ probeValueReceived' = ReceiveFlag(probeValueReceived, m)
  /\ ackSeen' = (ackSeen \/ (m.sensor = CHILD_VALUE_ID /\ m.isAck))
  /\ UNCHANGED <<lastProbeValue, cycleCpt, batteryLowCpt, cycleCptReset, pc,
                 localVars, cycleTx, cycleNo, restarted, sentSinceStart,
                 cyclesSinceSend, gwAckedLast, lastSentValue, lowVars,
                 cycleSteps>>

\* an echo that never arrives
LoseAck(m) ==
  /\ m \in network
  /\ network' = network \ {m}
  /\ UNCHANGED <<progVars, pc, localVars, cycleTx, cycleNo, restarted,
                 sendVars, lowVars, cycleSteps>>

(***************************************************************************)
(* Battery step: processBattery(allowSend), lines 265-302                  *)
(***************************************************************************)
\* lines 282-287 without the reset of the else branch
LowCptNoReset(level) ==
  IF IsLow(level) THEN (batteryLowCpt + 1) % UINT16 ELSE batteryLowCpt

\* batteryLowCpt after lines 282-287
LowCptAfter(level) ==
  IF IsLow(level) THEN (batteryLowCpt + 1) % UINT16 ELSE 0

\* line 290 with > in place of >=
LowConfirmedLate(cpt) == cpt > SEND_BATTERY_LOW_AFTER_N_CYCLE

\* the test of line 290
LowConfirmed(cpt) == cpt >= SEND_BATTERY_LOW_AFTER_N_CYCLE

\* lines 276-279 without the test of allowSend
MeasuredReportAlways(level) ==
  <<[type |-> "B", value |-> BatteryByte(level)]>>

\* lines 276-279: the measured level is transmitted when allowSend
MeasuredReport(level) ==
  IF allowSend THEN <<[type |-> "B", value |-> BatteryByte(level)]>>
  ELSE <<>>

\* line 293 placed under the test of allowSend
ZeroReportGated ==
  IF allowSend THEN <<[type |-> "B", value |-> 0]>> ELSE <<>>

\* line 293: sendBatteryLevel(0)
ZeroReport == <<[type |-> "B", value |-> 0]>>

ProcessBattery(level) ==
  /\ pc = "battery"
  /\ batteryLevel' = level
  /\ LET measured == MeasuredReport(level)
         low == IsLow(level)
         streak(n) == IF low THEN Min(n + 1, SEND_BATTERY_LOW_AFTER_N_CYCLE)
                      ELSE 0
     IN IF LowConfirmed(LowCptAfter(level))
          THEN /\ batteryLowCpt' = 0
               /\ cycleTx' = cycleTx \o measured \o ZeroReport
               /\ pc' = "lowsleep"
               /\ cycleSteps' = cycleSteps \o <<"battery", "lowsleep">>
               /\ lowStreak' = streak(lowStreak)
               /\ lowStreakLP' = 0
               /\ lowStreakRun' = 0
          ELSE /\ batteryLowCpt' = LowCptAfter(level)
               /\ cycleTx' = cycleTx \o measured
               /\ pc' = "reset"
               /\ cycleSteps' = Append(cycleSteps, "battery")
               /\ lowStreak' = streak(lowStreak)
               /\ lowStreakLP' = streak(lowStreakLP)
               /\ lowStreakRun' = streak(lowStreakRun)
  /\ UNCHANGED <<lastProbeValue, cycleCpt, cycleCptReset, probeValueReceived,
                 probeValueGross, probeValue, allowSend, network, cycleNo,
                 restarted, sendVars>>

\* a wake-up that resets the node instead of returning from sleep()
WakeInterruptResets ==
  /\ pc = "lowsleep"
  /\ pc' = "restart"
  /\ UNCHANGED <<progVars, localVars, radioVars, cycleNo, restarted, sendVars,
                 lowVars, cycleSteps>>

\* line 298: sleep(1, CHANGE, 0) ends when the interrupt pin changes
WakeInterrupt ==
  /\ pc = "lowsleep"
  /\ pc' = "reset"
  /\ UNCHANGED <<progVars, localVars, radioVars, cycleNo, restarted, sendVars,
                 lowVars, cycleSteps>>

(***************************************************************************)
(* Reset step: processReset(), restart(), doRestart(true)                  *)
(***************************************************************************)
\* line 311 with > in place of >=
ResetDueLate(cpt) == cpt > RESET_AFTER_N_CYCLE

\* the test of line 311
ResetDue(cpt) == cpt >= RESET_AFTER_N_CYCLE

\* processReset without the increment of line 310
ProcessResetNoCount ==
  /\ pc = "reset"
  /\ IF ResetDue(cycleCptReset)
       THEN /\ cycleCptReset' = 0
            /\ pc' = "restart"
       ELSE /\ cycleCptReset' = cycleCptReset
            /\ pc' = "sleep"
  /\ cycleSteps' = Append(cycleSteps, "reset")
  /\ UNCHANGED <<lastProbeValue, cycleCpt, batteryLowCpt, probeValueReceived,
                 localVars, radioVars, cycleNo, restarted, sendVars, lowVars>>

\* a restart that takes effect only later: the counter is zeroed and loop()
\* goes on to its sleep
ProcessResetDeferred ==
  /\ pc = "reset"
  /\ IF ResetDue((cycleCptReset + 1) % UINT16)
       THEN cycleCptReset' = 0
       ELSE cycleCptReset' = (cycleCptReset + 1) % UINT16
  /\ pc' = "sleep"
  /\ cycleSteps' = Append(cycleSteps, "reset")
  /\ UNCHANGED <<lastProbeValue, cycleCpt, batteryLowCpt, probeValueReceived,
                 localVars, radioVars, cycleNo, restarted, sendVars, lowVars>>

\* lines 310-312 and 179: count the cycle; when due, doRestart zeroes the
\* counter and is about to jump to address 0
ProcessReset ==
  /\ pc = "reset"
  /\ IF ResetDue((cycleCptReset + 1) % UINT16)
       THEN /\ cycleCptReset' = 0
            /\ pc' = "restart"
       ELSE /\ cycleCptReset' = (cycleCptReset + 1) % UINT16
            /\ pc' = "sleep"
  /\ cycleSteps' = Append(cycleSteps, "reset")
  /\ UNCHANGED <<lastProbeValue, cycleCpt, batteryLowCpt, probeValueReceived,
                 localVars, radioVars, cycleNo, restarted, sendVars, lowVars>>

\* line 187: jmp 0 enters the reset vector: the C runtime sets the globals
\* again, setup() runs, and loop() starts its first cycle
Restart ==
  /\ pc = "restart"
  /\ Startup
  /\ pc' = "moisture"
  /\ probeValueGross' = 0
  /\ probeValue' = 0
  /\ allowSend' = FALSE
  /\ batteryLevel' = 0
  /\ cycleTx' = <<>>
  /\ cycleSteps' = <<>>
  /\ cycleNo' = 0
  /\ restarted' = TRUE
  /\ sentSinceStart' = FALSE
  /\ lowStreakRun' = 0
  /\ UNCHANGED <<network, cyclesSinceSend, gwAckedLast, ackSeen, lowStreak,
                 lowStreakLP, lastSentValue>>

\* line 145: sleep(CYCLE_DURATION) ends, loop() returns and is called again
EndSleep ==
  /\ pc = "sleep"
  /\ pc' = "moisture"
  /\ probeValueGross' = 0
  /\ probeValue' = 0
  /\ allowSend' = FALSE
  /\ batteryLevel' = 0
  /\ cycleTx' = <<>>
  /\ cycleSteps' = <<>>
  /\ UNCHANGED <<progVars, network, cycleNo, restarted, sendVars, lowVars>>

Next ==
  \/ \E raw \in RawSamples : ProcessMoisture(raw)
  \/ \E delivered \in BOOLEAN : SendValue(delivered)
  \/ WaitEnd
  \/ \E m \in network \cup OtherMsgs : Receive(m)
  \/ \E m \in network : LoseAck(m)
  \/ \E level \in SocSamples : ProcessBattery(level)
  \/ WakeInterrupt
  \/ ProcessReset
  \/ Restart
  \/ EndSleep

Spec == Init /\ [][Next]_vars

\* The main flow is the only thread of control: every step of it that can
\* be taken is taken, the wait ends after its timeout, the end-of-cycle
\* sleep ends after CYCLE_DURATION, and the indefinite sleep is taken to
\* end (the wake interrupt fires).  Nothing is required of the radio.
Fairness ==
  /\ WF_vars(\E raw \in RawSamples : ProcessMoisture(raw))
  /\ WF_vars(\E delivered \in BOOLEAN : SendValue(delivered))
  /\ WF_vars(WaitEnd)
  /\ WF_vars(\E level \in SocSamples : ProcessBattery(level))
  /\ WF_vars(WakeInterrupt)
  /\ WF_vars(ProcessReset)
  /\ WF_vars(Restart)
  /\ WF_vars(EndSleep)

FairSpec == Init /\ [][Next]_vars /\ Fairness

\* the moisture step of the first cycle on every sample analogRead() can
\* return
NextScale == \E raw \in 0..AnalogMax : ProcessMoisture(raw)

SpecScale == Init /\ [][NextScale]_vars

(***************************************************************************)
(* Observations on a state or a step                                       *)
(***************************************************************************)
\* the step is the moisture step's check (lines 202-222)
MoistureStep == pc = "moisture" /\ pc' # "moisture"
\* the step is the transmission of the moisture value (line 227)
SendStep == pc = "send" /\ pc' # "send"
\* the step is the whole battery step
BatteryStep == pc = "battery" /\ pc' # "battery"
\* the step is the reset step
ResetStep == pc = "reset" /\ pc' # "reset"
\* a moisture value was transmitted in the current duty cycle
ValueSent == \E i \in 1..Len(cycleTx) : cycleTx[i].type = "V"
\* the step is receive() handling an acknowledgement of a moisture message
AckHandled ==
  /\ pc \in ReceivePoints
  /\ pc' = pc
  /\ \E m \in network : /\ m.sensor = CHILD_VALUE_ID
                        /\ m.isAck
                        /\ network' = network \ {m}
\* the battery step ended in the low-power branch: level 0 reported last,
\* then the indefinite sleep
LowPowerEntered ==
  /\ pc = "lowsleep"
  /\ Len(cycleTx) > 0
  /\ cycleTx[Len(cycleTx)] = [type |-> "B", value |-> 0]

(***************************************************************************)
(* C1: the moisture step takes the send path (and returns true) iff the   *)
(* reading differs from lastProbeValue, or cycleCpt equals                 *)
(* FORCE_SEND_AFTER_N_CYCLE, or probeValueReceived is false, all read at   *)
(* the moment of the check; the send path transmits the reading, the       *)
(* other path transmits nothing.                                           *)
(***************************************************************************)
C1_SendIff ==
  [][(MoistureStep =>
        /\ pc' \in {"send", "battery"}
        /\ (pc' = "send") <=> (\/ probeValue' # lastProbeValue
                               \/ cycleCpt = 3
                               \/ ~probeValueReceived)
        /\ allowSend' <=> (pc' = "send"))
     /\ (SendStep => cycleTx' = <<[type |-> "V", value |-> probeValue]>>)
     /\ (pc' = "battery" => (allowSend' <=> ValueSent'))]_vars

\* an unchanged, acknowledged reading below the force-send count was not sent
C1_Witness ==
  /\ pc = "battery"
  /\ ~allowSend
  /\ cycleTx = <<>>
  /\ probeValue = lastProbeValue
  /\ probeValueReceived
  /\ cycleCpt = 1

(***************************************************************************)
(* C2: from one moisture send to the next there are never more than        *)
(* FORCE_SEND_AFTER_N_CYCLE duty cycles, that is, never as many as         *)
(* FORCE_SEND_AFTER_N_CYCLE duty cycles in a row without a moisture send.  *)
(***************************************************************************)
C2_SendEveryNCycles == cyclesSinceSend < FORCE_SEND_AFTER_N_CYCLE

(***************************************************************************)
(* C3: a moisture step that runs while the last moisture send is still     *)
(* unacknowledged (probeValueReceived false, or no acknowledgement handled *)
(* since that send, a restart in between included) takes the send path     *)
(* and leaves cycleCpt at 0; with probeValueReceived false cycleCpt was 0  *)
(* already.                                                                *)
(***************************************************************************)
C3_RetryUntilAck ==
  [][(MoistureStep /\ (~probeValueReceived \/ ~ackSeen)) =>
        /\ pc' = "send"
        /\ allowSend'
        /\ cycleCpt' = 0
        /\ (~probeValueReceived => cycleCpt = 0)]_vars

\* a retry: the cycle right after an unacknowledged send sends again
C3_Witness ==
  /\ pc = "send"
  /\ ~ackSeen
  /\ cyclesSinceSend = 0
  /\ cycleNo > 1

(***************************************************************************)
(* C4: the first duty cycle after power-on and after every restart takes   *)
(* the send path and transmits the reading, whatever the reading is.       *)
(***************************************************************************)
C4_FirstCycleSends ==
  [][((MoistureStep /\ cycleNo = 0) => (pc' = "send" /\ allowSend'))
     /\ ((SendStep /\ cycleNo = 1) =>
           cycleTx' = <<[type |-> "V", value |-> probeValue]>>)]_vars

\* after a restart, a reading equal to the initial lastProbeValue was sent
C4_Witness ==
  /\ pc = "wait"
  /\ restarted
  /\ cycleNo = 1
  /\ probeValue = 0
  /\ cycleTx = <<[type |-> "V", value |-> 0]>>

(***************************************************************************)
(* C5: when the moisture step takes the send path, cycleCpt is 0 and       *)
(* probeValueReceived is false before the message is transmitted;          *)
(* probeValueReceived goes from false to true only when receive() handles  *)
(* an acknowledgement of CHILD_VALUE_ID (original claim), or when the      *)
(* restart reinitialises it (amended claim).                               *)
(***************************************************************************)
C5_OnlyAckSetsFlag ==
  [][(pc' = "send" => (cycleCpt' = 0 /\ ~probeValueReceived'))
     /\ ((~probeValueReceived /\ probeValueReceived') => AckHandled)]_vars

C5_OnlyAckOrRestartSetsFlag ==
  [][(pc' = "send" => (cycleCpt' = 0 /\ ~probeValueReceived'))
     /\ ((~probeValueReceived /\ probeValueReceived') =>
           (AckHandled \/ pc = "restart"))]_vars

\* the acknowledgement of a send arrived within the wait
C5_Witness ==
  /\ pc = "wait"
  /\ probeValueReceived
  /\ ackSeen
  /\ cycleCpt = 0
  /\ ValueSent

(***************************************************************************)
(* C6: once a moisture value has been sent since the (re)start, a true     *)
(* probeValueReceived means the gateway has acknowledged the most recent   *)
(* moisture send.                                                          *)
(***************************************************************************)
C6_FlagMeansLastAcked ==
  (sentSinceStart /\ probeValueReceived) => gwAckedLast

(***************************************************************************)
(* C7: a battery step whose reading is at or above BATTERY_LOW_LIMIT       *)
(* leaves batteryLowCpt at 0, and the low-power branch is entered only     *)
(* when the reading of this duty cycle and of the two before it were all   *)
(* below the limit.                                                        *)
(***************************************************************************)
C7_LowNeedsThreeInARow ==
  [][BatteryStep =>
       /\ (batteryLevel' >= BATTERY_LOW_LIMIT * SocUnit => batteryLowCpt' = 0)
       /\ (pc' = "lowsleep" =>
             lowStreak' = SEND_BATTERY_LOW_AFTER_N_CYCLE)]_vars

\* the low-power branch was entered on the third low reading in a row
C7_Witness ==
  /\ pc = "lowsleep"
  /\ lowStreak = SEND_BATTERY_LOW_AFTER_N_CYCLE
  /\ batteryLevel < BATTERY_LOW_LIMIT * SocUnit

(***************************************************************************)
(* C8: the third of three consecutive duty cycles with a reading below the *)
(* limit, none of the first two entering the low-power branch, reports     *)
(* level 0 and enters the indefinite sleep: whether or not a restart lies  *)
(* between them (original claim); when no restart lies between them        *)
(* (amended claim).                                                        *)
(***************************************************************************)
C8_ThreeLowConfirm ==
  [][(BatteryStep /\ IsLow(batteryLevel')
        /\ lowStreakLP >= SEND_BATTERY_LOW_AFTER_N_CYCLE - 1)
       => LowPowerEntered']_vars

C8_ThreeLowConfirmSameRun ==
  [][(BatteryStep /\ IsLow(batteryLevel')
        /\ lowStreakRun >= SEND_BATTERY_LOW_AFTER_N_CYCLE - 1)
       => (LowPowerEntered' /\ batteryLowCpt' = 0)]_vars

\* level 0 reported and sleep entered, in a run that began with a restart
C8_Witness ==
  /\ LowPowerEntered
  /\ restarted
  /\ cycleNo = SEND_BATTERY_LOW_AFTER_N_CYCLE
  /\ ~allowSend

(***************************************************************************)
(* C9: the reset step adds 1 to cycleCptReset once per duty cycle, starts  *)
(* the restart exactly in the duty cycle that brings it to                 *)
(* RESET_AFTER_N_CYCLE, leaves it 0 once the restart is initiated, and     *)
(* the end-of-cycle sleep is never reached with 36 or more.                *)
(***************************************************************************)
C9_ResetAtN ==
  [][(ResetStep =>
        /\ pc' \in {"sleep", "restart"}
        /\ (pc' = "restart") <=> (cycleNo = RESET_AFTER_N_CYCLE)
        /\ (pc' = "restart") <=> (cycleCptReset + 1 = RESET_AFTER_N_CYCLE)
        /\ (pc' = "restart" => cycleCptReset' = 0)
        /\ (pc' = "sleep" => /\ cycleCptReset' = cycleCptReset + 1
                             /\ cycleCptReset' = cycleNo
                             /\ cycleCptReset' < RESET_AFTER_N_CYCLE))
     /\ ((~ResetStep /\ pc # "restart") => cycleCptReset' = cycleCptReset)]_vars

\* the restart is initiated in the 36th duty cycle, counter already 0
C9_Witness ==
  /\ pc = "restart"
  /\ cycleCptReset = 0
  /\ cycleNo = RESET_AFTER_N_CYCLE

(***************************************************************************)
(* C10: the first duty cycle after a restart begins in the power-on state  *)
(* of the globals, whatever they were before the restart.                  *)
(***************************************************************************)
C10_RestartReinitializes ==
  (restarted /\ pc = "moisture" /\ cycleNo = 0) =>
     /\ lastProbeValue = 0
     /\ cycleCpt = 3
     /\ batteryLowCpt = 0
     /\ cycleCptReset = 0
     /\ probeValueReceived = TRUE

\* restarted in a cycle that had sent without acknowledgement and had
\* counted two low battery readings
C10_Witness ==
  /\ restarted
  /\ pc = "moisture"
  /\ cycleNo = 0
  /\ ~ackSeen
  /\ cyclesSinceSend = 0
  /\ lowStreakLP = SEND_BATTERY_LOW_AFTER_N_CYCLE - 1

(***************************************************************************)
(* C11: for every raw sample in 0..1023 the percentage of the moisture     *)
(* step is 100 * raw / 1024 rounded to the nearest integer, a half rounded *)
(* away from zero, and lies in 0..100; raw 512 gives 50.                   *)
(***************************************************************************)
C11_ScaleRounds ==
  /\ probeValueGross \in 0..AnalogMax
  /\ probeValue \in 0..100
  \* nearest integer: -1/2 < probeValue - 100 * raw / 1024 <= 1/2
  /\ 1024 * probeValue - 100 * probeValueGross > -512
  /\ 1024 * probeValue - 100 * probeValueGross <= 512
  /\ (probeValueGross = 512 => probeValue = 50)

\* 100 * 128 / 1024 = 12.5 was rounded to 13
C11_Witness ==
  /\ pc # "moisture"
  /\ probeValueGross = 128
  /\ probeValue = 13

(***************************************************************************)
(* C12: in every duty cycle the measured state of charge is transmitted    *)
(* iff the moisture step of that cycle sent a moisture value, and then     *)
(* right after that moisture value; nothing else is transmitted by the     *)
(* battery step but the level 0 of the low-power branch, and nothing is    *)
(* transmitted after the battery step.                                     *)
(***************************************************************************)
C12_BatteryGatedBySend ==
  [][(BatteryStep =>
        cycleTx' =
          (IF ValueSent
             THEN <<[type |-> "V", value |-> probeValue],
                    [type |-> "B", value |-> BatteryByte(batteryLevel')]>>
             ELSE <<>>)
          \o (IF pc' = "lowsleep" THEN <<[type |-> "B", value |-> 0]>>
              ELSE <<>>))
     /\ (pc \in {"lowsleep", "reset"} => cycleTx' = cycleTx)]_vars

\* a cycle that sent the moisture value and then the measured level
C12_Witness ==
  /\ pc = "reset"
  /\ allowSend
  /\ Len(cycleTx) = 2
  /\ cycleTx[1].type = "V"
  /\ cycleTx[2] = [type |-> "B", value |-> 90]

(***************************************************************************)
(* C13: every duty cycle runs the moisture step, the battery step, the     *)
(* reset step and the end-of-cycle sleep in that order; in the cycle that  *)
(* brings cycleCptReset to 36 the moisture and battery steps are complete  *)
(* when the restart happens, and the restart leads to the first moisture   *)
(* step of the new run without the end-of-cycle sleep.                     *)
(***************************************************************************)
C13_StepOrder ==
  [][/\ (pc' = "moisture" => cycleSteps' = <<>>)
     /\ (pc' \in {"send", "wait", "battery"} => cycleSteps' = <<"moisture">>)
     /\ (pc' = "lowsleep" =>
           cycleSteps' = <<"moisture", "battery", "lowsleep">>)
     /\ (pc' = "reset" =>
           cycleSteps' \in {<<"moisture", "battery">>,
                            <<"moisture", "battery", "lowsleep">>})
     /\ (pc' \in {"sleep", "restart"} =>
           cycleSteps' \in {<<"moisture", "battery", "reset">>,
                            <<"moisture", "battery", "lowsleep", "reset">>})
     /\ (pc' = "restart" => (allowSend' <=> ValueSent'))
     /\ (ResetStep => ((pc' = "restart") <=> (cycleNo = RESET_AFTER_N_CYCLE)))
     /\ (ResetStep => ((pc' = "sleep") <=> (cycleNo < RESET_AFTER_N_CYCLE)))
     /\ ((pc = "restart" /\ pc' # pc) => (pc' = "moisture" /\ cycleNo' = 0))
     /\ ((pc = "sleep" /\ pc' # pc) => (pc' = "moisture" /\ cycleNo' = cycleNo))
    ]_vars

\* the 36th cycle sent, went through the low-power sleep, and restarts
C13_Witness ==
  /\ pc = "restart"
  /\ cycleNo = RESET_AFTER_N_CYCLE
  /\ cycleSteps = <<"moisture", "battery", "lowsleep", "reset">>
  /\ Len(cycleTx) = 3

(***************************************************************************)
(* C14: during the indefinite sleep nothing is sampled or sent and no      *)
(* counter or flag changes; the wake interrupt continues the same cycle    *)
(* at the reset step with everything preserved, and the reset step is      *)
(* followed by the end-of-cycle sleep (original claim), or, in the cycle   *)
(* that brings cycleCptReset to 36, by the periodic restart (amended       *)
(* claim).                                                                 *)
(***************************************************************************)
C14_WakeContinuesToSleep ==
  [][/\ (pc = "lowsleep" =>
           /\ pc' \in {"lowsleep", "reset"}
           /\ UNCHANGED <<progVars, localVars, cycleTx, cycleNo>>)
     /\ ((ResetStep /\ cycleSteps = <<"moisture", "battery", "lowsleep">>) =>
           /\ pc' = "sleep"
           /\ cycleCptReset' = cycleCptReset + 1
           /\ UNCHANGED <<lastProbeValue, cycleCpt, batteryLowCpt,
                          probeValueReceived>>)]_vars

C14_WakeContinuesToSleepOrRestart ==
  [][/\ (pc = "lowsleep" =>
           /\ pc' \in {"lowsleep", "reset"}
           /\ UNCHANGED <<progVars, localVars, cycleTx, cycleNo>>)
     /\ ((ResetStep /\ cycleSteps = <<"moisture", "battery", "lowsleep">>) =>
           /\ UNCHANGED <<lastProbeValue, cycleCpt, batteryLowCpt,
                          probeValueReceived>>
           /\ IF cycleNo = RESET_AFTER_N_CYCLE
                THEN pc' = "restart"
                ELSE pc' = "sleep" /\ cycleCptReset' = cycleCptReset + 1)]_vars

\* woken from the indefinite sleep, the cycle reached its normal sleep
C14_Witness ==
  /\ pc = "sleep"
  /\ cycleSteps = <<"moisture", "battery", "lowsleep", "reset">>
  /\ batteryLowCpt = 0
  /\ cycleCptReset = cycleNo

(***************************************************************************)
(* C15: when the indefinite sleep is entered, level 0 has been transmitted *)
(* last, whether or not a moisture value was sent in the cycle, and        *)
(* batteryLowCpt is 0 again; in a cycle that sent a moisture value the     *)
(* measured level was transmitted before the 0.                            *)
(***************************************************************************)
C15_ZeroReportBeforeSleep ==
  pc = "lowsleep" =>
    /\ batteryLowCpt = 0
    /\ IF allowSend
         THEN cycleTx = <<[type |-> "V", value |-> probeValue],
                          [type |-> "B", value |-> BatteryByte(batteryLevel)],
                          [type |-> "B", value |-> 0]>>
         ELSE cycleTx = <<[type |-> "B", value |-> 0]>>

\* the sleep is entered in a cycle that sent: value, measured level, 0
C15_Witness ==
  /\ pc = "lowsleep"
  /\ allowSend
  /\ Len(cycleTx) = 3
  /\ cycleTx[2].value = 9
  /\ cycleTx[3].value = 0

(***************************************************************************)
(* C16: receive() leaves lastProbeValue, cycleCpt, batteryLowCpt and       *)
(* cycleCptReset unchanged for every message, never makes                  *)
(* probeValueReceived false, leaves it unchanged unless the message is an  *)
(* acknowledgement of CHILD_VALUE_ID, and handling the same message again  *)
(* changes nothing more.                                                   *)
(***************************************************************************)
C16_ReceiveOnlySetsFlag ==
  [][\A m \in network \cup OtherMsgs :
       Receive(m) =>
         /\ UNCHANGED <<lastProbeValue, cycleCpt, batteryLowCpt,
                        cycleCptReset>>
         /\ (probeValueReceived => probeValueReceived')
         /\ ((m.sensor = CHILD_VALUE_ID /\ m.isAck) => probeValueReceived')
         /\ (~(m.sensor = CHILD_VALUE_ID /\ m.isAck) =>
               probeValueReceived' = probeValueReceived)
         /\ ReceiveFlag(probeValueReceived', m) = probeValueReceived']_vars

\* the acknowledgement of a sent 100 was handled while cycleCpt was 0
C16_Witness ==
  /\ pc = "wait"
  /\ probeValueReceived
  /\ gwAckedLast
  /\ network = {}
  /\ lastProbeValue = 100
  /\ batteryLowCpt = 2

(***************************************************************************)
(* C17: a moisture step that does not send leaves lastProbeValue and       *)
(* probeValueReceived unchanged, transmits nothing and adds exactly 1 to   *)
(* cycleCpt; after the first send since the (re)start lastProbeValue is    *)
(* the value carried by the most recent moisture send: in every state      *)
(* (original claim); in every state but the one of the send path between   *)
(* the assignment of line 217 and the send of line 227 (amended claim).    *)
(***************************************************************************)
C17_LastValueIsLastSent ==
  [][/\ ((MoistureStep /\ pc' = "battery") =>
           /\ UNCHANGED <<lastProbeValue, probeValueReceived, cycleTx>>
           /\ cycleTx' = <<>>
           /\ cycleCpt' = cycleCpt + 1)
     /\ (sentSinceStart' => lastProbeValue' = lastSentValue')]_vars

C17_LastValueIsLastSentOutsideSend ==
  [][/\ ((MoistureStep /\ pc' = "battery") =>
           /\ UNCHANGED <<lastProbeValue, probeValueReceived, cycleTx>>
           /\ cycleTx' = <<>>
           /\ cycleCpt' = cycleCpt + 1)
     /\ ((sentSinceStart' /\ pc' # "send") =>
           lastProbeValue' = lastSentValue')]_vars

\* two cycles without a send after a send of 100
C17_Witness ==
  /\ pc = "battery"
  /\ ~allowSend
  /\ sentSinceStart
  /\ cycleCpt = 2
  /\ lastProbeValue = 100
  /\ lastSentValue = 100

(***************************************************************************)
(* C18: the counters stay within fixed bounds, far from the 16-bit wrap:   *)
(* cycleCpt in 0..3, batteryLowCpt in 0..3 and in 0..2 once a battery step *)
(* has finished, cycleCptReset in 0..36 and in 0..35 at every end-of-cycle *)
(* sleep, lastProbeValue in 0..100.                                        *)
(***************************************************************************)
C18_CountersBounded ==
  /\ cycleCpt \in 0..FORCE_SEND_AFTER_N_CYCLE
  /\ batteryLowCpt \in 0..SEND_BATTERY_LOW_AFTER_N_CYCLE
  /\ (pc \in {"lowsleep", "reset", "sleep", "restart"} =>
        batteryLowCpt \in 0..(SEND_BATTERY_LOW_AFTER_N_CYCLE - 1))
  /\ cycleCptReset \in 0..RESET_AFTER_N_CYCLE
  /\ (pc = "sleep" => cycleCptReset \in 0..(RESET_AFTER_N_CYCLE - 1))
  /\ lastProbeValue \in 0..100

\* every counter at the largest value it has between two cycles
C18_Witness ==
  /\ pc = "sleep"
  /\ cycleCpt = FORCE_SEND_AFTER_N_CYCLE
  /\ batteryLowCpt = SEND_BATTERY_LOW_AFTER_N_CYCLE - 1
  /\ cycleCptReset = RESET_AFTER_N_CYCLE - 1
  /\ lastProbeValue = 100

(***************************************************************************)
(* C19: when every sleep eventually ends, a restart is triggered again     *)
(* and again, whatever the readings, battery levels and acknowledgements.  *)
(***************************************************************************)
C19_RestartInfinitelyOften == []<>(pc = "restart")

\* a restart is triggered in a run that already began with a restart
C19_Witness ==
  /\ pc = "restart"
  /\ restarted
  /\ cycleCptReset = 0

====
